---- MODULE Spec2Model ----
(***************************************************************************)
(* Login-protected Plasmic pages on Next.js.                               *)
(*                                                                         *)
(*   pages/index.tsx          the public page: getStaticProps + page       *)
(*   pages/[...catchall].tsx  the protected pages, in two variants:        *)
(*       server-prefetch      getServerSideProps fetches and pre-computes  *)
(*       client-fetch         getServerSideProps only derives the path,    *)
(*                            the page component fetches through useSWR    *)
(*                                                                         *)
(* Strings that the code builds or takes apart (paths, cache keys) are     *)
(* sequences of one-character strings.  Values the code only passes on     *)
(* (display names, params, query, query caches) are tokens.                *)
(***************************************************************************)
EXTENDS Naturals, Sequences, FiniteSets, TLC

(* ---------------------------- bounds ----------------------------------- *)

\* longest catch-all segment list of a request
MaxSegs == 2
\* longest entryCompMetas list of a fetched descriptor
MaxEntries == 2

(* ------------------------- value domains ------------------------------- *)

Slash == <<"/">>

\* URL segments a request may carry
Segments == { <<"a">>, <<"b">>, <<"a", "b">> }

SegLists == UNION { [1..n -> Segments] : n \in 0..MaxSegs }

\* context.params.catchall: undefined, a string, or an array of strings
NoParam == [kind |-> "absent", str |-> <<>>, segs |-> <<>>]
StringParam(s) == [kind |-> "string", str |-> s, segs |-> <<>>]
ArrayParam(ss) == [kind |-> "array", str |-> <<>>, segs |-> ss]

CatchallParams ==
    {NoParam} \cup { StringParam(s) : s \in Segments }
              \cup { ArrayParam(ss) : ss \in SegLists }

\* the routes one browser session of the client-fetch variant visits
ClientRoutes == { NoParam, ArrayParam(<<<<"a">>, <<"b">>>>) }

\* router.query / context.query
Queries == { "q=1", "q=2" }

\* entries of ComponentRenderData.entryCompMetas
Entries == { [displayName |-> "Homepage", params |-> "paramsHomepage"],
             [displayName |-> "Dashboard", params |-> "paramsDashboard"] }

\* no descriptor (null / undefined: the code only tests falsiness)
NoData == [present |-> FALSE, entryCompMetas |-> <<>>]

Descriptors ==
    { [present |-> TRUE, entryCompMetas |-> es] :
        es \in UNION { [1..n -> Entries] : n \in 0..MaxEntries } }

\* what PLASMIC.maybeFetchComponentData may resolve to
FetchResults == {NoData} \cup Descriptors

\* what extractPlasmicQueryData may resolve to
QueryCaches == { "cacheA", "cacheB" }
NoCache == "undefined"
EmptyCache == "{}"

NoPath == <<"undefined">>

(* ------------------------- index.tsx ----------------------------------- *)

pageToLoad == Slash

Revalidate == 60
NoRevalidate == 0

(* ------------------------ path derivation ------------------------------ *)

RECURSIVE Join(_)
\* Array.prototype.join('/')
Join(ss) ==
    IF Len(ss) = 0 THEN <<>>
    ELSE IF Len(ss) = 1 THEN ss[1]
    ELSE ss[1] \o Slash \o Join(Tail(ss))

PlasmicPathPrefixed(c) ==
    IF c.kind = "string" THEN Slash \o c.str
    ELSE IF c.kind = "array" THEN Slash \o Join(c.segs)
    ELSE Slash

\* server-prefetch variant
PlasmicPath(c) ==
    IF c.kind = "string" THEN c.str
    ELSE IF c.kind = "array" THEN Slash \o Join(c.segs)
    ELSE Slash

\* client-fetch variant
PlasmicPathClient(c) ==
    IF c.kind = "string" THEN c.str
    ELSE IF c.kind = "array" THEN Slash \o Join(c.segs)
    ELSE Slash

NeverRedirect(isAuthorized) == FALSE

\* if(isAuthorized !== true) return { redirect ... }
Unauthorized(isAuthorized) == isAuthorized # TRUE

(* ------------------------- render outputs ------------------------------ *)

RenderOf(state, status, data, cache, entry, query) ==
    [state |-> state, statusCode |-> status, prefetchedData |-> data,
     prefetchedQueryData |-> cache, pageParams |-> entry.params,
     pageQuery |-> query, component |-> entry.displayName]

NoEntry == [displayName |-> "", params |-> ""]

\* <Error statusCode={404} />
NotFound == RenderOf("404", 404, NoData, NoCache, NoEntry, "")
\* <Error statusCode={500} />
ErrorPage == RenderOf("error", 500, NoData, NoCache, NoEntry, "")
\* <div>Loading...</div>
Loading == RenderOf("loading", 200, NoData, NoCache, NoEntry, "")
\* TypeError: reading a property of undefined
Exception == RenderOf("exception", 0, NoData, NoCache, NoEntry, "")
\* nothing rendered by the page component
NoRender == RenderOf("none", 0, NoData, NoCache, NoEntry, "")

\* <PlasmicRootProvider ...><PlasmicComponent component=... /></PlasmicRootProvider>
Page(data, cache, pageMeta, query) ==
    RenderOf("page", 200, data, cache, pageMeta, query)

NoProps == [plasmicData |-> NoData, queryCache |-> NoCache, plasmicPath |-> NoPath]

PlasmicLoaderPageLastEntry(props, query) ==
    IF ~props.plasmicData.present \/ Len(props.plasmicData.entryCompMetas) = 0
    THEN NotFound
    ELSE Page(props.plasmicData, props.queryCache,
              props.plasmicData.entryCompMetas[Len(props.plasmicData.entryCompMetas)],
              query)

\* index.tsx, the page component
PlasmicLoaderPageIndex(props, query) ==
    IF ~props.plasmicData.present \/ Len(props.plasmicData.entryCompMetas) = 0
    THEN NotFound
    ELSE Page(props.plasmicData, props.queryCache,
              props.plasmicData.entryCompMetas[1], query)

\* [...catchall].tsx server-prefetch variant, the page component
PlasmicLoaderPageServer(props, query) ==
    IF ~props.plasmicData.present \/ Len(props.plasmicData.entryCompMetas) = 0
    THEN NotFound
    ELSE Page(props.plasmicData, props.queryCache,
              props.plasmicData.entryCompMetas[1], query)

\* the loading check placed before the error check
PlasmicLoaderPageLoadingFirst(swrState, query) ==
    IF swrState.isValidating /\ ~swrState.data.present THEN Loading
    ELSE IF swrState.error THEN ErrorPage
    ELSE IF ~swrState.isValidating
            /\ (~swrState.data.present \/ Len(swrState.data.entryCompMetas) = 0)
    THEN NotFound
    ELSE IF ~swrState.data.present \/ Len(swrState.data.entryCompMetas) = 0
    THEN Exception
    ELSE Page(swrState.data, EmptyCache, swrState.data.entryCompMetas[1], query)

\* the fetched descriptor's own cache handed on instead of {}
PlasmicLoaderPageStaleCache(swrState, query) ==
    IF swrState.error THEN ErrorPage
    ELSE IF swrState.isValidating /\ ~swrState.data.present THEN Loading
    ELSE IF ~swrState.isValidating
            /\ (~swrState.data.present \/ Len(swrState.data.entryCompMetas) = 0)
    THEN NotFound
    ELSE IF ~swrState.data.present \/ Len(swrState.data.entryCompMetas) = 0
    THEN Exception
    ELSE Page(swrState.data, NoCache, swrState.data.entryCompMetas[1], query)

\* [...catchall].tsx client-fetch variant, the page component, from what
\* useSWR returned: { data, error, isValidating }
PlasmicLoaderPageClient(swrState, query) ==
    IF swrState.error THEN ErrorPage
    ELSE IF swrState.isValidating /\ ~swrState.data.present THEN Loading
    ELSE IF ~swrState.isValidating
            /\ (~swrState.data.present \/ Len(swrState.data.entryCompMetas) = 0)
    THEN NotFound
    \* plasmicData!.entryCompMetas[0] then pageMeta.params
    ELSE IF ~swrState.data.present \/ Len(swrState.data.entryCompMetas) = 0
    THEN Exception
    ELSE Page(swrState.data, EmptyCache, swrState.data.entryCompMetas[1], query)

(* --------------------------- SWR keys ---------------------------------- *)

KeyPrefix == <<"p", "l", "a", "s", "m", "i", "c", "D", "a", "t", "a", "_">>

SWRKeyFixed(path) == KeyPrefix

\* `plasmicData_${props.plasmicPath}`
SWRKey(path) == KeyPrefix \o path

(* ------------------------ function results ----------------------------- *)

NoResult ==
    [kind |-> "none", destination |-> "", permanent |-> FALSE,
     props |-> NoProps, revalidate |-> NoRevalidate]

\* return { redirect: { destination: '/login', permanent: false } }
LoginRedirect ==
    [kind |-> "redirect", destination |-> "/login", permanent |-> FALSE,
     props |-> NoProps, revalidate |-> NoRevalidate]

\* return { props: ..., revalidate?: ... }
PropsResult(props, revalidate) ==
    [kind |-> "props", destination |-> "", permanent |-> FALSE,
     props |-> props, revalidate |-> revalidate]

\* a call the running function makes to a collaborator
Call(op, path) == [op |-> op, path |-> path]

NoRequest == [catchall |-> NoParam, isAuthorized |-> TRUE]

(* ----------------------------- state ----------------------------------- *)

VARIABLES
    handler,      \* the page module this deployment is exercised through
    pc,           \* position of getStaticProps / getServerSideProps
    req,          \* the request getServerSideProps is handling
    query,        \* router.query of the page being viewed
    plasmicPath,  \* local of the running function
    plasmicData,  \* local of the running function
    result,       \* what the function returned last
    log,          \* collaborator calls of the current run, in order
    mounted,      \* props.plasmicPath of the mounted client-fetch page
    swr,          \* the SWR cache: key -> state of that key
    deduped       \* the last revalidation request joined a fetch in flight

vars == <<handler, pc, req, query, plasmicPath, plasmicData, result, log,
          mounted, swr, deduped>>

Handlers == { "index", "catchallServer", "catchallClient" }

Init ==
    /\ handler \in Handlers
    /\ pc = "idle"
    /\ req = NoRequest
    /\ query \in Queries
    /\ plasmicPath = NoPath
    /\ plasmicData = NoData
    /\ result = NoResult
    /\ log = <<>>
    /\ mounted = NoPath
    /\ swr = <<>>
    /\ deduped = FALSE

(* ---------------------- index.tsx: getStaticProps ---------------------- *)

\* the framework runs getStaticProps at build time, and again for a page whose
\* last result carries a revalidate interval
StaticGenerationDue ==
    \/ pc = "idle"
    \/ /\ pc \in {"done", "threw", "rejected"}
       /\ result.kind = "props"
       /\ result.revalidate # NoRevalidate

\* up to the first await
GetStaticPropsStart ==
    /\ handler = "index"
    /\ StaticGenerationDue
    /\ plasmicPath' = pageToLoad
    /\ plasmicData' = NoData
    /\ log' = <<Call("fetch", pageToLoad)>>
    /\ pc' = "fetching"
    /\ UNCHANGED <<handler, req, query, result, mounted, swr, deduped>>

\* from the descriptor the fetch resolved to, up to the next await or return
StaticFetched(d) ==
    IF ~d.present
    THEN [pc |-> "done", result |-> PropsResult(NoProps, NoRevalidate), calls |-> <<>>]
    ELSE IF Len(d.entryCompMetas) = 0
    \* pageMeta is undefined; pageMeta.params throws
    THEN [pc |-> "threw", result |-> NoResult, calls |-> <<>>]
    ELSE [pc |-> "extracting", result |-> NoResult,
          calls |-> <<Call("extract", pageToLoad)>>]

GetStaticPropsFetched(d) ==
    /\ handler = "index"
    /\ pc = "fetching"
    /\ plasmicData' = d
    /\ pc' = StaticFetched(d).pc
    /\ log' = log \o StaticFetched(d).calls
    /\ result' = IF StaticFetched(d).pc = "done" THEN StaticFetched(d).result ELSE result
    /\ UNCHANGED <<handler, req, query, plasmicPath, mounted, swr, deduped>>

\* the fetch rejects: nothing catches it
GetStaticPropsFetchRejected ==
    /\ handler = "index"
    /\ pc = "fetching"
    /\ pc' = "rejected"
    /\ UNCHANGED <<handler, req, query, plasmicPath, plasmicData, result, log,
                   mounted, swr, deduped>>

GetStaticPropsExtracted(queryCache) ==
    /\ handler = "index"
    /\ pc = "extracting"
    /\ result' = PropsResult([plasmicData |-> plasmicData, queryCache |-> queryCache,
                              plasmicPath |-> NoPath], Revalidate)
    /\ pc' = "done"
    /\ UNCHANGED <<handler, req, query, plasmicPath, plasmicData, log,
                   mounted, swr, deduped>>

\* a visitor opens the public page
ViewIndex(q) ==
    /\ handler = "index"
    /\ result.kind = "props"
    /\ query' = q
    /\ UNCHANGED <<handler, pc, req, plasmicPath, plasmicData, result, log,
                   mounted, swr, deduped>>

(* ------------- [...catchall].tsx, server-prefetch variant -------------- *)

\* up to the first await or return
GetServerSidePropsStart(c, isAuthorized, q) ==
    /\ handler = "catchallServer"
    /\ pc \in {"idle", "done", "threw", "rejected"}
    /\ req' = [catchall |-> c, isAuthorized |-> isAuthorized]
    /\ query' = q
    /\ plasmicPath' = PlasmicPath(c)
    /\ plasmicData' = NoData
    /\ IF Unauthorized(isAuthorized)
       THEN /\ log' = <<Call("authorize", PlasmicPath(c))>>
            /\ result' = LoginRedirect
            /\ pc' = "done"
       ELSE /\ log' = <<Call("authorize", PlasmicPath(c)),
                        Call("fetch", PlasmicPath(c))>>
            /\ result' = NoResult
            /\ pc' = "fetching"
    /\ UNCHANGED <<handler, mounted, swr, deduped>>

ServerFetchedUnguarded(d, path) ==
    IF ~d.present \/ Len(d.entryCompMetas) = 0
    THEN [pc |-> "threw", result |-> NoResult, calls |-> <<>>]
    ELSE [pc |-> "extracting", result |-> NoResult, calls |-> <<Call("extract", path)>>]

\* from the descriptor the fetch resolved to, up to the next await or return
ServerFetched(d, path) ==
    IF ~d.present
    THEN [pc |-> "done", result |-> PropsResult(NoProps, NoRevalidate), calls |-> <<>>]
    ELSE IF Len(d.entryCompMetas) = 0
    \* pageMeta is undefined; pageMeta.params throws
    THEN [pc |-> "threw", result |-> NoResult, calls |-> <<>>]
    ELSE [pc |-> "extracting", result |-> NoResult, calls |-> <<Call("extract", path)>>]

GetServerSidePropsFetched(d) ==
    /\ handler = "catchallServer"
    /\ pc = "fetching"
    /\ plasmicData' = d
    /\ pc' = ServerFetched(d, plasmicPath).pc
    /\ log' = log \o ServerFetched(d, plasmicPath).calls
    /\ result' = ServerFetched(d, plasmicPath).result
    /\ UNCHANGED <<handler, req, query, plasmicPath, mounted, swr, deduped>>

\* the fetch rejects: nothing catches it
GetServerSidePropsFetchRejected ==
    /\ handler = "catchallServer"
    /\ pc = "fetching"
    /\ pc' = "rejected"
    /\ UNCHANGED <<handler, req, query, plasmicPath, plasmicData, result, log,
                   mounted, swr, deduped>>

GetServerSidePropsExtracted(queryCache) ==
    /\ handler = "catchallServer"
    /\ pc = "extracting"
    /\ result' = PropsResult([plasmicData |-> plasmicData, queryCache |-> queryCache,
                              plasmicPath |-> NoPath], NoRevalidate)
    /\ pc' = "done"
    /\ UNCHANGED <<handler, req, query, plasmicPath, plasmicData, log,
                   mounted, swr, deduped>>

(* --------------- [...catchall].tsx, client-fetch variant --------------- *)

\* if(isAuthorized !== true) return { redirect ... }
UnauthorizedClient(isAuthorized) == isAuthorized # TRUE

\* the whole function: it awaits nothing
GetServerSidePropsClient(c, isAuthorized) ==
    IF UnauthorizedClient(isAuthorized)
    THEN [plasmicPath |-> PlasmicPathClient(c),
          calls |-> <<Call("authorize", PlasmicPathClient(c))>>,
          result |-> LoginRedirect]
    ELSE [plasmicPath |-> PlasmicPathClient(c),
          calls |-> <<Call("authorize", PlasmicPathClient(c))>>,
          result |-> PropsResult([NoProps EXCEPT !.plasmicPath = PlasmicPathClient(c)],
                                 NoRevalidate)]

NoSWRState ==
    [data |-> NoData, error |-> FALSE, isValidating |-> FALSE,
     fetching |-> <<>>, src |-> NoPath]

SWRStateOf(cache, key) == IF key \in DOMAIN cache THEN cache[key] ELSE NoSWRState

\* a revalidation request for key; the fetcher closes over path
SWRFetchInFlight(cache, key) == Len(SWRStateOf(cache, key).fetching) > 0

SWRRevalidate(cache, key, path) ==
    IF SWRFetchInFlight(cache, key)
    THEN cache
    ELSE [k \in DOMAIN cache \cup {key} |->
            IF k = key
            THEN [SWRStateOf(cache, key) EXCEPT !.isValidating = TRUE,
                                                !.fetching = <<path>>]
            ELSE cache[k]]

\* the browser requests a route: the framework runs getServerSideProps and,
\* unless it redirects, renders the page component with the props it returned;
\* useSWR then subscribes to the key of the new path and revalidates it
Navigate(c, isAuthorized, q) ==
    /\ handler = "catchallClient"
    /\ req' = [catchall |-> c, isAuthorized |-> isAuthorized]
    /\ query' = q
    /\ plasmicPath' = GetServerSidePropsClient(c, isAuthorized).plasmicPath
    /\ log' = GetServerSidePropsClient(c, isAuthorized).calls
    /\ result' = GetServerSidePropsClient(c, isAuthorized).result
    /\ pc' = "done"
    /\ IF result'.kind = "redirect"
       \* the browser leaves for the login page
       THEN mounted' = NoPath /\ UNCHANGED <<swr, deduped>>
       ELSE IF mounted = result'.props.plasmicPath
       THEN UNCHANGED <<mounted, swr, deduped>>
       ELSE /\ mounted' = result'.props.plasmicPath
            /\ deduped' = SWRFetchInFlight(swr, SWRKey(result'.props.plasmicPath))
            /\ swr' = SWRRevalidate(swr, SWRKey(result'.props.plasmicPath),
                                    result'.props.plasmicPath)
    /\ UNCHANGED <<handler, plasmicData>>

\* focus, reconnect, or a second subscriber of the same key
RevalidatePage ==
    /\ handler = "catchallClient"
    /\ mounted # NoPath
    /\ deduped' = SWRFetchInFlight(swr, SWRKey(mounted))
    /\ swr' = SWRRevalidate(swr, SWRKey(mounted), mounted)
    /\ UNCHANGED <<handler, pc, req, query, plasmicPath, plasmicData, result, log,
                   mounted>>

\* plasmicComponentFetcher resolves
FetcherResolved(key, d) ==
    /\ handler = "catchallClient"
    /\ key \in DOMAIN swr
    /\ Len(swr[key].fetching) > 0
    /\ swr' = [swr EXCEPT ![key] =
                 [data |-> d, error |-> FALSE,
                  isValidating |-> Len(swr[key].fetching) > 1,
                  fetching |-> Tail(swr[key].fetching),
                  src |-> Head(swr[key].fetching)]]
    /\ UNCHANGED <<handler, pc, req, query, plasmicPath, plasmicData, result, log,
                   mounted, deduped>>

\* plasmicComponentFetcher rejects
FetcherRejected(key) ==
    /\ handler = "catchallClient"
    /\ key \in DOMAIN swr
    /\ Len(swr[key].fetching) > 0
    /\ swr' = [swr EXCEPT ![key] =
                 [@ EXCEPT !.error = TRUE,
                           !.isValidating = Len(swr[key].fetching) > 1,
                           !.fetching = Tail(swr[key].fetching)]]
    /\ UNCHANGED <<handler, pc, req, query, plasmicPath, plasmicData, result, log,
                   mounted, deduped>>

\* const { data, error, isValidating } = useSWR(key, fetcher)
UseSWR(path) ==
    [data |-> SWRStateOf(swr, SWRKey(path)).data,
     error |-> SWRStateOf(swr, SWRKey(path)).error,
     isValidating |-> SWRStateOf(swr, SWRKey(path)).isValidating]

(* ------------------------- what is on screen --------------------------- *)

Rendered ==
    IF handler = "index"
    THEN IF result.kind = "props"
         THEN PlasmicLoaderPageIndex(result.props, query) ELSE NoRender
    ELSE IF handler = "catchallServer"
    THEN IF result.kind = "props"
         THEN PlasmicLoaderPageServer(result.props, query) ELSE NoRender
    ELSE IF mounted # NoPath
         THEN PlasmicLoaderPageClient(UseSWR(mounted), query) ELSE NoRender

(* ------------------------- specification ------------------------------- *)

Next ==
    \/ GetStaticPropsStart
    \/ \E d \in FetchResults : GetStaticPropsFetched(d)
    \/ GetStaticPropsFetchRejected
    \/ \E qc \in QueryCaches : GetStaticPropsExtracted(qc)
    \/ \E q \in Queries : ViewIndex(q)
    \/ \E c \in CatchallParams, a \in BOOLEAN, q \in Queries :
          GetServerSidePropsStart(c, a, q)
    \/ \E d \in FetchResults : GetServerSidePropsFetched(d)
    \/ GetServerSidePropsFetchRejected
    \/ \E qc \in QueryCaches : GetServerSidePropsExtracted(qc)
    \/ \E c \in ClientRoutes, a \in BOOLEAN, q \in Queries : Navigate(c, a, q)
    \/ RevalidatePage
    \/ \E k \in DOMAIN swr, d \in FetchResults : FetcherResolved(k, d)
    \/ \E k \in DOMAIN swr : FetcherRejected(k)

Spec == Init /\ [][Next]_vars

TypeOK ==
    /\ handler \in Handlers
    /\ pc \in {"idle", "fetching", "extracting", "done", "threw", "rejected"}
    /\ plasmicData \in FetchResults
    /\ result.kind \in {"none", "props", "redirect"}
    /\ Rendered.state \in {"none", "404", "error", "loading", "page", "exception"}

(* ============================ properties =============================== *)

Protected == handler \in {"catchallServer", "catchallClient"}

ValidDescriptor(d) == d.present /\ Len(d.entryCompMetas) >= 1
EmptyDescriptor(d) == d.present /\ Len(d.entryCompMetas) = 0

Ops(l) == { l[i].op : i \in 1..Len(l) }

(* ------------------------------- C1 ------------------------------------ *)

\* C1: in both variants of the protected handler, a request whose
\* authorization result is false is answered with the non-permanent redirect
\* to '/login' and has made no fetch and no pre-computation; every fetch or
\* pre-computation of a request comes after its authorization decision, and
\* that decision was true.
C1_UnauthorizedRedirectsBeforeAnyFetch ==
    Protected =>
      /\ (pc # "idle" /\ ~req.isAuthorized) =>
            /\ result.kind = "redirect"
            /\ result.destination = "/login"
            /\ result.permanent = FALSE
            /\ Ops(log) \cap {"fetch", "extract"} = {}
      /\ \A i \in 1..Len(log) :
            log[i].op \in {"fetch", "extract"} =>
                /\ req.isAuthorized
                /\ \E j \in 1..(i - 1) : log[j].op = "authorize"

C1_Witness ==
    /\ handler = "catchallServer"
    /\ pc = "done"
    /\ ~req.isAuthorized
    /\ result.kind = "redirect"

(* ------------------------------- C2 ------------------------------------ *)

RECURSIVE StartOf(_, _)
\* the position in '/' + s1 + '/' + s2 + ... at which segment i starts
StartOf(ss, i) == IF i = 1 THEN 2 ELSE StartOf(ss, i - 1) + Len(ss[i - 1]) + 1

\* p is the lookup path the contract gives for the catch-all parameter c
PathAsSpecified(c, p) ==
    IF c.kind = "string" THEN p = c.str
    ELSE IF c.kind = "absent" \/ Len(c.segs) = 0 THEN p = <<"/">>
    ELSE /\ Len(p) = StartOf(c.segs, Len(c.segs)) + Len(c.segs[Len(c.segs)]) - 1
         /\ \A i \in 1..Len(c.segs) :
               /\ p[StartOf(c.segs, i) - 1] = "/"
               /\ SubSeq(p, StartOf(c.segs, i),
                         StartOf(c.segs, i) + Len(c.segs[i]) - 1) = c.segs[i]

\* C2: the lookup path is '/' for no segments (parameter absent or an empty
\* list), the string itself for a single string, and '/' followed by the
\* segments joined with '/' for a list, so ["a","b"] gives "/a/b"; both
\* variants derive the same path for the same parameter.
C2_LookupPathDerivation ==
    /\ \A c \in CatchallParams :
          /\ PathAsSpecified(c, PlasmicPath(c))
          /\ PathAsSpecified(c, PlasmicPathClient(c))
          /\ PlasmicPath(c) = PlasmicPathClient(c)
    /\ PlasmicPath(ArrayParam(<<<<"a">>, <<"b">>>>)) = <<"/", "a", "/", "b">>
    /\ (Protected /\ pc # "idle") => PathAsSpecified(req.catchall, plasmicPath)
    /\ (handler = "catchallClient" /\ result.kind = "props") =>
          PathAsSpecified(req.catchall, result.props.plasmicPath)

C2_Witness ==
    /\ handler = "catchallServer"
    /\ pc = "fetching"
    /\ req.catchall.kind = "string"
    /\ plasmicPath = req.catchall.str
    /\ plasmicPath[1] # "/"

(* ------------------------------- C3 ------------------------------------ *)

\* C3: in every handler a request whose fetch returned a descriptor with zero
\* entries ends in the 404 render state, not in an exception or a page.
C3_EmptyDescriptorRenders404 ==
    /\ (handler \in {"index", "catchallServer"}
        /\ pc \in {"extracting", "done", "threw"}
        /\ EmptyDescriptor(plasmicData)) =>
            /\ pc = "done"
            /\ Rendered.state = "404"
    /\ (handler = "catchallClient"
        /\ mounted # NoPath
        /\ ~UseSWR(mounted).isValidating
        /\ ~UseSWR(mounted).error
        /\ EmptyDescriptor(UseSWR(mounted).data)) =>
            Rendered.state = "404"

(* ------------------------------- C4 ------------------------------------ *)

\* C4: in the server-prefetch variant, when authorization is true and the
\* fetch returned no descriptor, getServerSideProps returns empty props
\* without calling the pre-computation, and the page rendered from them is
\* the 404 state.
C4_AbsentDescriptorGivesEmptyProps ==
    (handler = "catchallServer"
     /\ req.isAuthorized
     /\ pc \in {"extracting", "done", "threw"}
     /\ ~plasmicData.present) =>
        /\ pc = "done"
        /\ result.kind = "props"
        /\ ~result.props.plasmicData.present
        /\ result.props.queryCache = NoCache
        /\ "extract" \notin Ops(log)
        /\ Rendered.state = "404"
        /\ Rendered.statusCode = 404

C4_Witness ==
    /\ handler = "catchallServer"
    /\ pc = "done"
    /\ req.isAuthorized
    /\ "fetch" \in Ops(log)
    /\ ~plasmicData.present
    /\ Rendered.state = "404"

(* ------------------------------- C5 ------------------------------------ *)

\* C5: in the client-fetch variant a reported error gives the error state
\* whether or not a fetch is in flight or data is cached; otherwise a fetch in
\* flight with no data yet gives the loading state.
C5_ErrorThenLoading ==
    (handler = "catchallClient" /\ mounted # NoPath) =>
        /\ UseSWR(mounted).error =>
              Rendered.state = "error" /\ Rendered.statusCode = 500
        /\ (~UseSWR(mounted).error
            /\ UseSWR(mounted).isValidating
            /\ ~UseSWR(mounted).data.present) =>
              Rendered.state = "loading"

C5_Witness ==
    /\ handler = "catchallClient"
    /\ mounted # NoPath
    /\ UseSWR(mounted).error
    /\ UseSWR(mounted).isValidating
    /\ ~UseSWR(mounted).data.present
    /\ Rendered.state = "error"

(* ------------------------------- C6 ------------------------------------ *)

\* C6: in the client-fetch variant, once a fetch has settled without error,
\* no descriptor or an empty entry list gives the 404 state; otherwise the
\* first entry's component is rendered with the fetched descriptor and an
\* empty data cache, and the client never pre-computes.
C6_SettledRender ==
    handler = "catchallClient" =>
      /\ "extract" \notin Ops(log)
      /\ (mounted # NoPath
          /\ SWRKey(mounted) \in DOMAIN swr
          /\ ~UseSWR(mounted).isValidating
          /\ ~UseSWR(mounted).error) =>
            IF ~ValidDescriptor(UseSWR(mounted).data)
            THEN Rendered.state = "404" /\ Rendered.statusCode = 404
            ELSE /\ Rendered.state = "page"
                 /\ Rendered.component =
                       UseSWR(mounted).data.entryCompMetas[1].displayName
                 /\ Rendered.prefetchedData = UseSWR(mounted).data
                 /\ Rendered.prefetchedQueryData = EmptyCache

C6_Witness ==
    /\ handler = "catchallClient"
    /\ mounted # NoPath
    /\ ~UseSWR(mounted).isValidating
    /\ ~UseSWR(mounted).error
    /\ ValidDescriptor(UseSWR(mounted).data)
    /\ Rendered.state = "page"

(* ------------------------------- C7 ------------------------------------ *)

ClientPaths == { PlasmicPathClient(c) : c \in ClientRoutes }

\* where the fetch cycle of a path stands
Phase(cache, path) ==
    IF SWRKey(path) \notin DOMAIN cache THEN "idle"
    ELSE IF cache[SWRKey(path)].isValidating THEN "fetching"
    ELSE IF cache[SWRKey(path)].error THEN "error"
    ELSE IF ValidDescriptor(cache[SWRKey(path)].data) THEN "populated"
    ELSE "empty-result"

C7_KeyedByPath ==
    handler = "catchallClient" =>
      /\ \A p1, p2 \in ClientPaths : p1 # p2 => SWRKey(p1) # SWRKey(p2)
      /\ mounted # NoPath =>
            /\ SWRKey(mounted) = KeyPrefix \o mounted
            /\ SWRKey(mounted) \in DOMAIN swr
            /\ swr[SWRKey(mounted)].src \in {NoPath, mounted}
      /\ \A k \in DOMAIN swr :
            /\ Len(swr[k].fetching) <= 1
            /\ swr[k].isValidating <=> Len(swr[k].fetching) = 1
            /\ \A i \in 1..Len(swr[k].fetching) : k = KeyPrefix \o swr[k].fetching[i]
            /\ swr[k].src # NoPath => k = KeyPrefix \o swr[k].src

C7_CycleStep ==
    handler = "catchallClient" =>
      /\ (mounted' # mounted /\ mounted' # NoPath) =>
            /\ Phase(swr', mounted') = "fetching"
            /\ swr'[SWRKey(mounted')].fetching = <<mounted'>>
      /\ \A p \in ClientPaths :
            Phase(swr', p) # Phase(swr, p) =>
               /\ Phase(swr, p) = "idle" => Phase(swr', p) = "fetching"
               /\ Phase(swr, p) = "fetching" \/ Phase(swr', p) = "fetching"

\* C7: in the client-fetch variant the cycle idle -> fetching -> {error,
\* empty-result, populated} is re-entered whenever the lookup path changes: a
\* new path gives the key 'plasmicData_<path>' and a fetch for that path, the
\* value shown for a path is never the cached result of another path, and
\* concurrent requests for one key give a single fetch in flight.
C7_FetchCyclePerPath == []C7_KeyedByPath /\ [][C7_CycleStep]_vars

C7_Witness ==
    /\ handler = "catchallClient"
    /\ Cardinality(DOMAIN swr) = 2
    /\ mounted # NoPath
    /\ deduped
    /\ Len(swr[SWRKey(mounted)].fetching) = 1
    /\ \E k \in DOMAIN swr : k # SWRKey(mounted) /\ swr[k].src # NoPath

(* ------------------------------- C8 ------------------------------------ *)

\* the render of the first entry of d, with the entry's params and the query
RendersFirstEntry(d) ==
    /\ Rendered.state = "page"
    /\ Rendered.component = d.entryCompMetas[1].displayName
    /\ Rendered.pageParams = d.entryCompMetas[1].params
    /\ Rendered.pageQuery = query

\* C8 as stated: given a valid descriptor, every handler's render invokes the
\* component named by the first entry's displayName and passes that entry's
\* params and the current query through unchanged.
C8_ValidDescriptorAlwaysRendersFirstEntry ==
    /\ (handler \in {"index", "catchallServer"}
        /\ result.kind = "props"
        /\ ValidDescriptor(result.props.plasmicData)) =>
            RendersFirstEntry(result.props.plasmicData)
    /\ (handler = "catchallClient"
        /\ mounted # NoPath
        /\ ValidDescriptor(UseSWR(mounted).data)) =>
            RendersFirstEntry(UseSWR(mounted).data)

\* C8: given a valid descriptor and, in the client-fetch variant, no error
\* reported by the fetch library, every handler's render invokes the component
\* named by the first entry's displayName and passes that entry's params and
\* the current query through unchanged; later entries never influence it.
C8_ValidDescriptorRendersFirstEntryUnlessError ==
    /\ (handler \in {"index", "catchallServer"}
        /\ result.kind = "props"
        /\ ValidDescriptor(result.props.plasmicData)) =>
            RendersFirstEntry(result.props.plasmicData)
    /\ (handler = "catchallClient"
        /\ mounted # NoPath
        /\ ~UseSWR(mounted).error
        /\ ValidDescriptor(UseSWR(mounted).data)) =>
            RendersFirstEntry(UseSWR(mounted).data)
    /\ Rendered.state = "page" =>
          \E d \in Descriptors :
             /\ ValidDescriptor(d)
             /\ Rendered.prefetchedData = d
             /\ RendersFirstEntry(d)

C8_Witness ==
    /\ handler = "catchallServer"
    /\ result.kind = "props"
    /\ Len(result.props.plasmicData.entryCompMetas) >= 2
    /\ result.props.plasmicData.entryCompMetas[1]
          # result.props.plasmicData.entryCompMetas[2]
    /\ Rendered.state = "page"
    /\ Rendered.pageQuery = query

(* ------------------------------- C9 ------------------------------------ *)

\* C9: the public handler always fetches the fixed path '/', checks no
\* authorization, and serves a result with periodic revalidation: with a
\* descriptor it returns descriptor and data cache with revalidate 60; without
\* one it returns no page data, the render is the 404 state, and a later
\* generation that finds the descriptor still replaces that result.
C9_PublicPageRevalidates ==
    handler = "index" =>
      /\ \A i \in 1..Len(log) :
            /\ log[i].op # "authorize"
            /\ log[i].op = "fetch" => log[i].path = <<"/">>
      /\ (pc = "done" /\ plasmicData.present) =>
            /\ result.kind = "props"
            /\ result.props.plasmicData = plasmicData
            /\ result.props.queryCache \in QueryCaches
            /\ result.revalidate = 60
      /\ (pc = "done" /\ ~plasmicData.present) =>
            /\ result.kind = "props"
            /\ ~result.props.plasmicData.present
            /\ Rendered.state = "404"
            /\ ENABLED GetStaticPropsStart

(* ------------------------------- C10 ----------------------------------- *)

\* C10: in the client-fetch variant every reachable combination of error,
\* fetch in flight and cached data renders exactly one of error, loading, 404
\* and page, and page only when the cached descriptor exists and has an
\* entry, also while a revalidation is in flight over a cached descriptor.
C10_RenderIsTotal ==
    (handler = "catchallClient" /\ mounted # NoPath) =>
        /\ Rendered.state \in {"error", "loading", "404", "page"}
        /\ Rendered.state = "page" => ValidDescriptor(UseSWR(mounted).data)

====
